---------------------------- MODULE Spec2Model ----------------------------
(***************************************************************************)
(* A model of src/scrapper/main.py: the IRSFormsScraper catalog harvester. *)
(*                                                                         *)
(* Text is modelled as sequences of one-character strings, so that         *)
(* str.lower(), str.strip(), str.split('/')[-1], startswith, endswith and  *)
(* the `in` substring test are computed character by character.            *)
(***************************************************************************)
EXTENDS Integers, Sequences, FiniteSets, TLC

(***************************************************************************)
(* Bounds of the model.                                                    *)
(***************************************************************************)
\* pages the catalog can hold
MaxAvail == 2
\* rows the catalog serves, over all its pages, during one call
MaxRows == 2
\* largest integer page cap passed as max_pages
MaxCap == 2
\* words in a title given to the classifier
MaxWords == 2
\* characters of the path part of an href given to the extractor
MaxHrefLen == 3
\* calls of scrape_all_pages on one instance
MaxCalls == 2
\* invocations of download_pdf with one record
MaxInvocations == 2

(***************************************************************************)
(* Python str operations.                                                  *)
(***************************************************************************)
\* str.lower() on one character (the ASCII letters)
LowerChar(c) ==
    CASE c = "A" -> "a" [] c = "B" -> "b" [] c = "C" -> "c" [] c = "D" -> "d"
      [] c = "E" -> "e" [] c = "F" -> "f" [] c = "G" -> "g" [] c = "H" -> "h"
      [] c = "I" -> "i" [] c = "J" -> "j" [] c = "K" -> "k" [] c = "L" -> "l"
      [] c = "M" -> "m" [] c = "N" -> "n" [] c = "O" -> "o" [] c = "P" -> "p"
      [] c = "Q" -> "q" [] c = "R" -> "r" [] c = "S" -> "s" [] c = "T" -> "t"
      [] c = "U" -> "u" [] c = "V" -> "v" [] c = "W" -> "w" [] c = "X" -> "x"
      [] c = "Y" -> "y" [] c = "Z" -> "z" [] OTHER -> c

\* s.lower()
Lower(s) == [i \in 1..Len(s) |-> LowerChar(s[i])]

\* p in s
Contains(s, p) ==
    \E i \in 1..(Len(s) - Len(p) + 1) : SubSeq(s, i, i + Len(p) - 1) = p

\* s.startswith(p)
StartsWith(s, p) == Len(p) <= Len(s) /\ SubSeq(s, 1, Len(p)) = p

\* s.endswith(p)
EndsWith(s, p) == Len(p) <= Len(s) /\ SubSeq(s, Len(s) - Len(p) + 1, Len(s)) = p

\* s.strip(): leading and trailing blanks removed
Strip(s) ==
    LET idx == {i \in 1..Len(s) : s[i] # " "}
    IN  IF idx = {} THEN <<>>
        ELSE LET lo == CHOOSE i \in idx : \A j \in idx : i <= j
                 hi == CHOOSE i \in idx : \A j \in idx : j <= i
             IN  SubSeq(s, lo, hi)

\* s.split('/')[-1]: what follows the last '/', the whole of s when it has none
LastSegment(s) ==
    LET slashes == {i \in 1..Len(s) : s[i] = "/"}
    IN  IF slashes = {} THEN s
        ELSE LET last == CHOOSE i \in slashes : \A j \in slashes : j <= i
             IN  SubSeq(s, last + 1, Len(s))

(***************************************************************************)
(* String literals of the source.                                          *)
(***************************************************************************)
base_url == <<"h","t","t","p","s",":","/","/","w","w","w",".","i","r","s",".","g","o","v">>
lit_http == <<"h","t","t","p">>
lit_pdf == <<".","p","d","f">>
lit_version_paren == <<"v","e","r","s","i","o","n",")">>
lit_Version == <<"V","e","r","s","i","o","n">>
lit_Spanish == <<"S","p","a","n","i","s","h">>
lit_Chinese == <<"C","h","i","n","e","s","e">>
lit_Vietnamese == <<"V","i","e","t","n","a","m","e","s","e">>
lit_schedule == <<"s","c","h","e","d","u","l","e">>
lit_instructions_for_form == <<"i","n","s","t","r","u","c","t","i","o","n","s"," ","f","o","r"," ","f","o","r","m">>
lit_instructions_for_schedule == <<"i","n","s","t","r","u","c","t","i","o","n","s"," ","f","o","r"," ","s","c","h","e","d","u","l","e">>

\* the prefixes of the core individual tax forms
individual_prefixes ==
    { <<"1","0","4","0">>, <<"w","-","2">>, <<"w","-","4">>, <<"1","0","9","9">> }

\* the prefixes of the business forms
business_prefixes ==
    { <<"1","1","2","0">>, <<"1","0","6","5">>, <<"1","0","4","1">>,
      <<"9","4","1">>, <<"9","4","0">> }

important_pubs ==
    { <<"p","u","b","l","i","c","a","t","i","o","n"," ","1","7">>,
      <<"p","u","b","l","i","c","a","t","i","o","n"," ","3","3","4">>,
      <<"p","u","b","l","i","c","a","t","i","o","n"," ","5","3","5">>,
      <<"p","u","b","l","i","c","a","t","i","o","n"," ","9","4","6">>,
      <<"p","u","b","l","i","c","a","t","i","o","n"," ","9","7","0">>,
      <<"p","u","b","l","i","c","a","t","i","o","n"," ","5","2","3">>,
      <<"p","u","b","l","i","c","a","t","i","o","n"," ","9","3","6">> }

(***************************************************************************)
(* is_important_form: the relevance classifier.                            *)
(***************************************************************************)
is_important_form(form_info) ==
    LET product_number == Lower(form_info.product_number)
        title == Lower(form_info.title)
    IN  IF \/ Contains(title, lit_version_paren)
           \/ Contains(title, lit_Version)
           \/ Contains(title, lit_Spanish)
           \/ Contains(title, lit_Chinese)
           \/ Contains(title, lit_Vietnamese)
        THEN FALSE
        ELSE IF \E prefix \in individual_prefixes : StartsWith(product_number, prefix)
        THEN TRUE
        ELSE IF \E prefix \in business_prefixes : StartsWith(product_number, prefix)
        THEN TRUE
        ELSE IF Contains(product_number, lit_schedule) \/ Contains(title, lit_schedule)
        THEN TRUE
        ELSE IF \E pub \in important_pubs : Contains(title, pub)
        THEN TRUE
        ELSE IF \/ Contains(title, lit_instructions_for_form)
                \/ Contains(title, lit_instructions_for_schedule)
        THEN TRUE
        ELSE FALSE

(***************************************************************************)
(* extract_form_info: a table row to a record, or None.                    *)
(*                                                                         *)
(* A row is [ncells, span, span_link, outer_link, title, revision_date,    *)
(* posted_date]: the number of td cells, whether the first cell holds a    *)
(* span of class tablesaw-cell-content, the first link inside that span    *)
(* and the first link of the first cell outside it.  An optional value is  *)
(* a                                                                       *)
(* sequence of length 0 (None, absent) or 1: a link is <<>> or             *)
(* <<[text, href]>>, its href <<>> (no such attribute) or <<string>>, and  *)
(* the extractor returns <<>> or <<record>>.                               *)
(***************************************************************************)
\* link_elem.get('href', '')
GetHref(link_elem) == IF link_elem.href = <<>> THEN <<>> ELSE link_elem.href[1]

\* lines 198-203: the link of the product cell: with the span, the one inside it
FindLink(row) == IF row.span THEN row.span_link ELSE row.outer_link

\* lines 212-213: a relative URL is made absolute
AbsoluteUrl(href) ==
    IF href # <<>> /\ ~StartsWith(href, lit_http) THEN base_url \o href ELSE href

\* s.split('/')[0]
FirstSegment(s) ==
    LET slashes == {i \in 1..Len(s) : s[i] = "/"}
    IN  IF slashes = {} THEN s
        ELSE LET first == CHOOSE i \in slashes : \A j \in slashes : i <= j
             IN  SubSeq(s, 1, first - 1)

\* line 221 with the wrong end of the split taken
FilenameFirstSegment(pdf_url) ==
    IF pdf_url # <<>> THEN FirstSegment(pdf_url) ELSE <<>>

\* line 221
Filename(pdf_url) == IF pdf_url # <<>> THEN LastSegment(pdf_url) ELSE <<>>

extract_form_info(row, now) ==
    IF row.ncells < 4 THEN <<>>
    ELSE LET link == FindLink(row)
         IN  IF link = <<>> THEN <<>>
             ELSE LET link_elem == link[1]
                      pdf_url == AbsoluteUrl(GetHref(link_elem))
                  IN  << [ product_number |-> Strip(link_elem.text),
                           title |-> Strip(row.title),
                           revision_date |-> Strip(row.revision_date),
                           posted_date |-> Strip(row.posted_date),
                           pdf_url |-> pdf_url,
                           filename |-> Filename(pdf_url),
                           scraped_date |-> now ] >>

(***************************************************************************)
(* download_pdf.  net is what the network and the disk do to this          *)
(* invocation: "ok" (status 200, body read, file written), "status_404",   *)
(* "get_raises", "body_raises" (response.body() raises) or "write_partial" *)
(* (write_bytes raises with the file created and part of the body in it).  *)
(* The result is the directory, the counter and the number of GETs this    *)
(* invocation issued.                                                      *)
(***************************************************************************)
NetOutcomes ==
    {"ok", "status_404", "get_raises", "body_raises", "write_partial"}

\* the outcomes in which the GET itself returns a status other than 200 or raises
GetFailures == {"status_404", "get_raises"}

\* lines 248-258 once the GET is issued
Fetch(fs, count, form_info, net) ==
    CASE net = "ok" ->
           [files |-> (form_info.filename :> "new") @@ fs,
            downloaded_count |-> count + 1, gets |-> 1]
      [] net = "write_partial" ->
           [files |-> (form_info.filename :> "partial") @@ fs,
            downloaded_count |-> count, gets |-> 1]
      [] OTHER ->
           [files |-> fs, downloaded_count |-> count, gets |-> 1]

\* download_pdf without the test of lines 240-243
DownloadPdfNoSkip(fs, count, form_info, net) ==
    IF form_info.filename = <<>>
    THEN [files |-> fs, downloaded_count |-> count, gets |-> 0]
    ELSE Fetch(fs, count, form_info, net)

\* download_pdf counting and writing whatever the status
DownloadPdfAnyStatus(fs, count, form_info, net) ==
    IF form_info.filename = <<>> \/ form_info.filename \in DOMAIN fs
    THEN [files |-> fs, downloaded_count |-> count, gets |-> 0]
    ELSE IF net = "status_404" THEN Fetch(fs, count, form_info, "ok")
    ELSE Fetch(fs, count, form_info, net)

download_pdf(fs, count, form_info, net) ==
    IF form_info.filename = <<>>
    THEN [files |-> fs, downloaded_count |-> count, gets |-> 0]
    ELSE IF form_info.filename \in DOMAIN fs
    THEN [files |-> fs, downloaded_count |-> count, gets |-> 0]
    ELSE Fetch(fs, count, form_info, net)

(***************************************************************************)
(* save_metadata: the file is [exists, rows].                              *)
(***************************************************************************)
save_metadata(file, forms_data) ==
    IF forms_data # <<>> THEN [exists |-> TRUE, rows |-> forms_data] ELSE file

(***************************************************************************)
(* The state.                                                              *)
(***************************************************************************)
VARIABLES
    \* the IRSFormsScraper instance (lines 27-30)
    filter_important_only, total_forms_found, important_forms_found, downloaded_count,
    \* download_dir: the files by name, and metadata.csv
    files, metadata_file,
    \* the catalog site: the rows it serves, its number of pages; GETs issued; the clock
    site_rows, avail, gets, clock,
    \* the frame of scrape_all_pages: the place in the code and its locals
    pc, max_pages, playwright, browser, all_forms_data, current_page,
    rows, idx, page_forms_data, raising, result,
    \* the caller: calls made and allowed on the instance, print_summary reached
    calls, call_budget, summary_printed,
    \* what the current call has done so far
    pages_seen, nav_failed, fault, failed_forms, dl, important_at_call, browser_at_save,
    \* the argument and the results of a function applied on its own
    fn_in, fn_out

instance_vars ==
    <<filter_important_only, total_forms_found, important_forms_found, downloaded_count>>
disk_vars == <<files, metadata_file>>
site_vars == <<site_rows, avail, gets, clock>>
frame_vars ==
    <<max_pages, playwright, browser, all_forms_data, current_page,
      rows, idx, page_forms_data, raising, result>>
caller_vars == <<calls, call_budget, summary_printed>>
call_vars ==
    <<pages_seen, nav_failed, fault, failed_forms, dl, important_at_call, browser_at_save>>
fn_vars == <<fn_in, fn_out>>
vars ==
    <<instance_vars, disk_vars, site_vars, pc, frame_vars, caller_vars, call_vars, fn_vars>>

\* max_pages=None
NoCap == -1

\* the values passed as max_pages
CapArgs == {NoCap} \cup (0..MaxCap)

\* all sequences over S of length at most n
RECURSIVE SeqsUpTo(_, _)
SeqsUpTo(S, n) ==
    IF n = 0 THEN {<<>>}
    ELSE LET shorter == SeqsUpTo(S, n - 1)
         IN  shorter \cup {Append(q, x) : q \in {t \in shorter : Len(t) = n - 1}, x \in S}

(***************************************************************************)
(* Rows of the catalog.                                                    *)
(***************************************************************************)
Link(text, href) == <<[text |-> text, href |-> <<href>>]>>

Row(ncells, span, span_link, outer_link, title) ==
    [ncells |-> ncells, span |-> span, span_link |-> span_link, outer_link |-> outer_link,
     title |-> title, revision_date |-> <<"2","0","2","4">>,
     posted_date |-> <<" ","2","0","2","4">>]

txt_1040 == <<" ","1","0","4","0"," ">>
txt_notice == <<"N","o","t","i","c","e"," ","1">>
txt_sch_a == <<"S","c","h"," ","A">>
txt_tax_return == <<"T","a","x"," ","R","e","t","u","r","n">>
txt_guide == <<"G","u","i","d","e">>
txt_schedule_spanish == <<"S","c","h","e","d","u","l","e"," ","A"," ","(","S","p","a","n","i","s","h",")">>
href_f_pdf == <<"/","f",".","p","d","f">>
href_n_pdf == <<"/","n",".","p","d","f">>
href_dir == <<"/","p","/">>

\* form 1040 in the styled span, linking a PDF
row_1040 == Row(4, TRUE, Link(txt_1040, href_f_pdf), <<>>, txt_tax_return)
\* a notice no rule accepts, linking a PDF
row_notice == Row(4, FALSE, <<>>, Link(txt_notice, href_n_pdf), txt_guide)
\* a Spanish schedule whose link is a directory
row_spanish == Row(4, FALSE, <<>>, Link(txt_sch_a, href_dir), txt_schedule_spanish)
\* four cells and no link in the first
row_no_link == Row(4, FALSE, <<>>, <<>>, txt_guide)
\* three cells
row_short == Row(3, FALSE, <<>>, Link(txt_1040, href_f_pdf), txt_tax_return)
\* form W-2 with an absolute link
row_w2 == Row(5, FALSE, <<>>, Link(<<"W","-","2">>, <<"h","t","t","p",":","/","/","x","/","w",".","p","d","f">>), txt_tax_return)

RowKinds == {row_1040, row_notice, row_spanish, row_no_link}

\* the file a previous run left in download_dir
f_pdf == <<"f",".","p","d","f">>
InitialDirs == { <<>>, (f_pdf :> "old") }

\* metadata.csv as a previous run left it
stale_form == extract_form_info(row_notice, 0)[1]
InitialMetadata ==
    { [exists |-> FALSE, rows |-> <<>>], [exists |-> TRUE, rows |-> <<stale_form>>] }

(***************************************************************************)
(* Initial states: the instance just constructed (lines 21-30), main about *)
(* to call scrape_all_pages.                                               *)
(***************************************************************************)
InitFrame ==
    /\ pc = "main"
    /\ max_pages = NoCap
    /\ playwright = "none"
    /\ browser = "none"
    /\ all_forms_data = <<>>
    /\ current_page = 1
    /\ rows = <<>>
    /\ idx = 1
    /\ page_forms_data = <<>>
    /\ raising = FALSE
    /\ result = <<>>
    /\ calls = 0
    /\ summary_printed = FALSE
    /\ pages_seen = <<>>
    /\ nav_failed = 0
    /\ fault = FALSE
    /\ failed_forms = {}
    /\ dl = <<>>
    /\ important_at_call = 0
    /\ browser_at_save = "unsaved"

InitInstance ==
    /\ total_forms_found = 0
    /\ important_forms_found = 0
    /\ downloaded_count = 0
    /\ gets = 0
    /\ clock = 1

Init ==
    /\ InitInstance
    /\ InitFrame
    /\ filter_important_only \in BOOLEAN
    /\ files \in InitialDirs
    /\ metadata_file \in InitialMetadata
    /\ site_rows = RowKinds
    /\ avail \in 0..MaxAvail
    /\ call_budget = 1
    /\ fn_in = <<>>
    /\ fn_out = <<>>

(***************************************************************************)
(* scrape_all_pages, one action per step of its code.                      *)
(***************************************************************************)
\* line 95: `if max_pages and ...`, the truth value of max_pages
Truthy(cap) == cap # NoCap /\ cap # 0

\* lines 74-76: the function is entered and the async_playwright scope with it
EnterScrape(cap) ==
    /\ pc' = "launch"
    /\ max_pages' = cap
    /\ playwright' = "running"
    /\ browser' = "none"
    /\ raising' = FALSE
    /\ result' = <<>>
    /\ calls' = calls + 1
    /\ pages_seen' = <<>>
    /\ nav_failed' = 0
    /\ fault' = FALSE
    /\ failed_forms' = {}
    /\ dl' = <<>>
    /\ important_at_call' = important_forms_found
    /\ browser_at_save' = "unsaved"
    /\ all_forms_data' = <<>>
    /\ current_page' = 1
    /\ rows' = <<>>
    /\ idx' = 1
    /\ page_forms_data' = <<>>
    /\ UNCHANGED <<instance_vars, disk_vars, site_vars, fn_vars>>
    /\ UNCHANGED <<call_budget, summary_printed>>

\* line 295: main calls scrape_all_pages
MainCall ==
    /\ pc = "main"
    /\ \E cap \in CapArgs : EnterScrape(cap)

\* a caller calls scrape_all_pages again on the same instance
CallAgain ==
    /\ pc = "returned"
    /\ calls < call_budget
    /\ \E cap \in CapArgs : EnterScrape(cap)

\* what a step of the session before the try block leaves alone
SetupUnchanged ==
    /\ UNCHANGED <<instance_vars, disk_vars, site_vars, caller_vars, call_vars, fn_vars>>
    /\ UNCHANGED <<max_pages, playwright, rows, idx, page_forms_data, result>>

\* lines 78-81: p.chromium.launch
Launch ==
    /\ pc = "launch"
    /\ \/ browser' = "open" /\ pc' = "new_context" /\ UNCHANGED raising
       \/ raising' = TRUE /\ pc' = "exit_scope" /\ UNCHANGED browser
    /\ UNCHANGED <<all_forms_data, current_page>>
    /\ SetupUnchanged

\* lines 83-86: browser.new_context
NewContext ==
    /\ pc = "new_context"
    /\ \/ pc' = "new_page" /\ UNCHANGED raising
       \/ raising' = TRUE /\ pc' = "exit_scope"
    /\ UNCHANGED <<browser, all_forms_data, current_page>>
    /\ SetupUnchanged

\* lines 88-91: context.new_page, then the locals of the loop
NewPage ==
    /\ pc = "new_page"
    /\ \/ /\ pc' = "loop"
          /\ all_forms_data' = <<>>
          /\ current_page' = 1
          /\ UNCHANGED raising
       \/ /\ raising' = TRUE
          /\ pc' = "exit_scope"
          /\ UNCHANGED <<all_forms_data, current_page>>
    /\ UNCHANGED browser
    /\ SetupUnchanged

\* what a step of the page loop outside the rows leaves alone
LoopUnchanged ==
    /\ UNCHANGED <<instance_vars, disk_vars, site_vars, caller_vars, fn_vars>>
    /\ UNCHANGED <<max_pages, playwright, browser, all_forms_data, current_page,
                   raising, result>>
    /\ UNCHANGED <<failed_forms, dl, important_at_call, browser_at_save>>

\* lines 94-97: the page cap
LoopHead ==
    /\ pc = "loop"
    /\ pc' = IF Truthy(max_pages) /\ current_page > max_pages THEN "finally" ELSE "navigate"
    /\ UNCHANGED <<rows, idx, page_forms_data, pages_seen, nav_failed, fault>>
    /\ LoopUnchanged

\* lines 102-117: page 1 is loaded, a later page is reached by the next-page link,
\* which page k-1 shows when the catalog has a page k
Navigate ==
    /\ pc = "navigate"
    /\ \/ /\ current_page = 1
          /\ pc' = "wait_table"
          /\ UNCHANGED <<nav_failed, fault>>
       \/ /\ current_page = 1
          /\ pc' = "finally"
          /\ nav_failed' = current_page
          /\ fault' = TRUE
       \/ /\ current_page > 1
          /\ current_page <= avail
          /\ pc' = "wait_table"
          /\ UNCHANGED <<nav_failed, fault>>
       \/ /\ current_page > 1
          /\ current_page <= avail
          /\ pc' = "finally"
          /\ nav_failed' = current_page
          /\ fault' = TRUE
       \/ /\ current_page > 1
          /\ current_page > avail
          /\ pc' = "finally"
          /\ nav_failed' = current_page
          /\ UNCHANGED fault
    /\ UNCHANGED <<rows, idx, page_forms_data, pages_seen>>
    /\ LoopUnchanged

\* lines 120-124: the table of the page, there when the catalog has the page
WaitTable ==
    /\ pc = "wait_table"
    /\ \/ /\ current_page <= avail
          /\ pc' = "content"
          /\ UNCHANGED <<nav_failed, fault>>
       \/ /\ current_page <= avail
          /\ pc' = "finally"
          /\ nav_failed' = current_page
          /\ fault' = TRUE
       \/ /\ current_page > avail
          /\ pc' = "finally"
          /\ nav_failed' = current_page
          /\ UNCHANGED fault
    /\ UNCHANGED <<rows, idx, page_forms_data, pages_seen>>
    /\ LoopUnchanged

\* the rows of the pages this call has read
RECURSIVE Concat(_)
Concat(ps) == IF ps = <<>> THEN <<>> ELSE Head(ps) \o Concat(Tail(ps))

\* lines 127-139: the content of the page and the rows of its table
GetContent ==
    /\ pc = "content"
    /\ \/ /\ \E rs \in SeqsUpTo(site_rows, MaxRows - Len(Concat(pages_seen))) :
                /\ rows' = rs
                /\ pages_seen' = Append(pages_seen, rs)
          /\ idx' = 1
          /\ page_forms_data' = <<>>
          /\ pc' = "row"
          /\ UNCHANGED fault
       \/ /\ pc' = "finally"
          /\ fault' = TRUE
          /\ UNCHANGED <<rows, idx, page_forms_data, pages_seen>>
    /\ UNCHANGED nav_failed
    /\ LoopUnchanged

\* line 148: the record is kept
Accepted(form_info) == ~(filter_important_only /\ ~is_important_form(form_info))

\* line 156: the record's PDF is downloaded
Downloadable(form_info) == form_info.pdf_url # <<>> /\ EndsWith(form_info.pdf_url, lit_pdf)

\* line 152 moved above the test of line 148
CountImportantEveryRecord(important, accepted) == important + 1

\* lines 148-152: important_forms_found after a record
CountImportant(important, accepted) == IF accepted THEN important + 1 ELSE important

\* line 157: download_pdf called for form_info
DownloadStep(form_info) ==
    \E net \in NetOutcomes :
        LET r == download_pdf(files, downloaded_count, form_info, net)
        IN  /\ files' = r.files
            /\ downloaded_count' = r.downloaded_count
            /\ gets' = gets + r.gets
            /\ dl' = << [form |-> form_info, gets |-> r.gets,
                         net |-> IF r.gets = 0 THEN "skipped" ELSE net] >>
            /\ failed_forms' = IF r.gets = 1 /\ net \in GetFailures
                               THEN failed_forms \cup {form_info}
                               ELSE failed_forms

\* lines 141-163: one row of the page
ProcessRow ==
    /\ pc = "row"
    /\ idx <= Len(rows)
    /\ idx' = idx + 1
    /\ LET info == extract_form_info(rows[idx], clock)
       IN  IF info = <<>>
           THEN /\ dl' = <<>>
                /\ UNCHANGED <<total_forms_found, important_forms_found, page_forms_data,
                               files, downloaded_count, gets, clock, failed_forms>>
           ELSE LET form_info == info[1]
                IN  /\ clock' = clock + 1
                    /\ total_forms_found' = total_forms_found + 1
                    /\ important_forms_found' =
                           CountImportant(important_forms_found, Accepted(form_info))
                    /\ IF Accepted(form_info)
                       THEN /\ page_forms_data' = Append(page_forms_data, form_info)
                            /\ IF Downloadable(form_info)
                               THEN DownloadStep(form_info)
                               ELSE /\ dl' = <<>>
                                    /\ UNCHANGED <<files, downloaded_count, gets,
                                                   failed_forms>>
                       ELSE /\ dl' = <<>>
                            /\ UNCHANGED <<page_forms_data, files, downloaded_count,
                                           gets, failed_forms>>
    /\ UNCHANGED <<filter_important_only, metadata_file, site_rows, avail, pc>>
    /\ UNCHANGED <<max_pages, playwright, browser, all_forms_data, current_page,
                   rows, raising, result>>
    /\ UNCHANGED <<caller_vars, fn_vars>>
    /\ UNCHANGED <<pages_seen, nav_failed, fault, important_at_call, browser_at_save>>

\* lines 165-171: the page is done
PageComplete ==
    /\ pc = "row"
    /\ idx > Len(rows)
    /\ all_forms_data' = all_forms_data \o page_forms_data
    /\ current_page' = current_page + 1
    /\ pc' = "loop"
    /\ dl' = <<>>
    /\ UNCHANGED <<instance_vars, disk_vars, site_vars, caller_vars, fn_vars>>
    /\ UNCHANGED <<max_pages, playwright, browser, rows, idx, page_forms_data,
                   raising, result>>
    /\ UNCHANGED <<pages_seen, nav_failed, fault, failed_forms, important_at_call,
                   browser_at_save>>

\* what the end of the function leaves alone
EndUnchanged ==
    /\ UNCHANGED <<instance_vars, files, site_vars, caller_vars, fn_vars>>
    /\ UNCHANGED <<max_pages, all_forms_data, current_page, rows, idx, page_forms_data>>
    /\ UNCHANGED <<pages_seen, nav_failed, fault, failed_forms, dl, important_at_call>>

\* the finally block left without closing the browser
FinallyNoClose ==
    /\ pc = "finally"
    /\ pc' = "save"
    /\ UNCHANGED <<browser, raising>>
    /\ UNCHANGED <<metadata_file, playwright, result, browser_at_save>>
    /\ EndUnchanged

\* lines 173-176: an exception of the loop is logged, and browser.close()
Finally ==
    /\ pc = "finally"
    /\ \/ browser' = "closed" /\ pc' = "save" /\ UNCHANGED raising
       \/ raising' = TRUE /\ pc' = "exit_scope" /\ UNCHANGED browser
    /\ UNCHANGED <<metadata_file, playwright, result, browser_at_save>>
    /\ EndUnchanged

\* line 179: save_metadata(all_forms_data); to_csv may raise, with the file as it
\* was or truncated
SaveMetadata ==
    /\ pc = "save"
    /\ browser_at_save' = browser
    /\ pc' = "exit_scope"
    /\ \/ /\ metadata_file' = save_metadata(metadata_file, all_forms_data)
          /\ UNCHANGED raising
       \/ /\ all_forms_data # <<>>
          /\ metadata_file' \in {metadata_file, [exists |-> TRUE, rows |-> <<>>]}
          /\ raising' = TRUE
    /\ UNCHANGED <<playwright, browser, result>>
    /\ EndUnchanged

\* line 76, then 181: the async_playwright scope is left, which stops the Playwright
\* driver and with it every browser it launched that is still open; the function
\* then returns all_forms_data or lets the exception through
ExitScope ==
    /\ pc = "exit_scope"
    /\ playwright' = "stopped"
    /\ browser' = IF browser = "open" THEN "terminated" ELSE browser
    /\ IF raising
       THEN pc' = "raised" /\ UNCHANGED result
       ELSE pc' = "returned" /\ result' = <<all_forms_data>>
    /\ UNCHANGED <<metadata_file, raising, browser_at_save>>
    /\ EndUnchanged

\* line 298: print_summary
PrintSummary ==
    /\ pc = "returned"
    /\ pc' = "done"
    /\ summary_printed' = TRUE
    /\ UNCHANGED <<instance_vars, disk_vars, site_vars, frame_vars, call_vars, fn_vars>>
    /\ UNCHANGED <<calls, call_budget>>

\* line 295: the exception of scrape_all_pages leaves main
MainRaises ==
    /\ pc = "raised"
    /\ pc' = "crashed"
    /\ UNCHANGED <<instance_vars, disk_vars, site_vars, frame_vars, call_vars, fn_vars>>
    /\ UNCHANGED caller_vars

\* main, which calls scrape_all_pages once
NextOnce ==
    \/ MainCall
    \/ Launch
    \/ NewContext
    \/ NewPage
    \/ LoopHead
    \/ Navigate
    \/ WaitTable
    \/ GetContent
    \/ ProcessRow
    \/ PageComplete
    \/ Finally
    \/ SaveMetadata
    \/ ExitScope
    \/ PrintSummary
    \/ MainRaises

Next ==
    \/ MainCall
    \/ CallAgain
    \/ Launch
    \/ NewContext
    \/ NewPage
    \/ LoopHead
    \/ Navigate
    \/ WaitTable
    \/ GetContent
    \/ ProcessRow
    \/ PageComplete
    \/ Finally
    \/ SaveMetadata
    \/ ExitScope
    \/ PrintSummary
    \/ MainRaises

\* main on a catalog of RowKinds
Spec == Init /\ [][NextOnce]_vars

(***************************************************************************)
(* main's instance (filter_important_only=True, line 291) called up to     *)
(* MaxCalls times, on a one-page catalog and a new download_dir.           *)
(***************************************************************************)
InitRepeat ==
    /\ InitInstance
    /\ InitFrame
    /\ filter_important_only = TRUE
    /\ files = <<>>
    /\ metadata_file = [exists |-> FALSE, rows |-> <<>>]
    /\ site_rows = {row_1040, row_notice}
    /\ avail = 1
    /\ call_budget = MaxCalls
    /\ fn_in = <<>>
    /\ fn_out = <<>>

SpecRepeat == InitRepeat /\ [][Next]_vars

(***************************************************************************)
(* main on a one-page catalog whose rows are all one row, any of           *)
(* ExtractorRows: every shape of the first cell and every short href.      *)
(***************************************************************************)
HrefPaths == SeqsUpTo({"/", "f"}, MaxHrefLen)

Hrefs ==
    {<<>>} \cup {<<h>> : h \in HrefPaths \cup {lit_http \o h : h \in HrefPaths}
                              \cup {href_f_pdf}}

ExtractorRows ==
    { [ncells |-> n, span |-> sp, span_link |-> sl, outer_link |-> ol,
       title |-> txt_tax_return, revision_date |-> <<"2","0","2","4">>,
       posted_date |-> <<>>] :
        n \in {3, 4, 5}, sp \in BOOLEAN,
        sl \in {<<>>} \cup {<<[text |-> txt_1040, href |-> h]>> : h \in Hrefs},
        ol \in {<<>>, <<[text |-> txt_notice, href |-> <<href_n_pdf>>]>>} }

InitRows ==
    /\ InitInstance
    /\ InitFrame
    /\ filter_important_only \in BOOLEAN
    /\ files = <<>>
    /\ metadata_file = [exists |-> FALSE, rows |-> <<>>]
    /\ site_rows \in {{r} : r \in {x \in ExtractorRows : x.span \/ x.span_link = <<>>}}
    /\ avail = 1
    /\ call_budget = 1
    /\ fn_in = <<>>
    /\ fn_out = <<>>

SpecRows == InitRows /\ [][NextOnce]_vars

(***************************************************************************)
(* is_important_form applied on its own to a record.                       *)
(***************************************************************************)
\* words of a title
TitleWords ==
    { lit_Spanish, lit_Chinese, lit_Vietnamese, lit_Version, lit_version_paren,
      <<"(","S","p","a","n","i","s","h"," ","V","e","r","s","i","o","n",")">>,
      <<"S","c","h","e","d","u","l","e">>,
      <<"P","u","b","l","i","c","a","t","i","o","n"," ","1","7">>,
      <<"I","n","s","t","r","u","c","t","i","o","n","s"," ","f","o","r"," ","F","o","r","m">>,
      <<"T","a","x">> }

\* the words of ws with a blank between them
RECURSIVE JoinWords(_)
JoinWords(ws) ==
    IF ws = <<>> THEN <<>>
    ELSE IF Len(ws) = 1 THEN ws[1]
    ELSE ws[1] \o <<" ">> \o JoinWords(Tail(ws))

Titles == {JoinWords(ws) : ws \in SeqsUpTo(TitleWords, MaxWords)}

ProductNumbers ==
    { <<"1","0","4","0">>, <<"W","-","2">>, <<"9","4","1">>, txt_notice, txt_sch_a }

ClassifierForms ==
    { [product_number |-> p, title |-> t, revision_date |-> <<>>, posted_date |-> <<>>,
       pdf_url |-> <<>>, filename |-> <<>>, scraped_date |-> 0] :
        p \in ProductNumbers, t \in Titles }

\* what the harvester's variables hold while a function is applied on its own
InitFn ==
    /\ InitInstance
    /\ InitFrame
    /\ filter_important_only = TRUE
    /\ metadata_file = [exists |-> FALSE, rows |-> <<>>]
    /\ site_rows = {}
    /\ avail = 0
    /\ call_budget = 0
    /\ fn_out = <<>>

InitClassify ==
    /\ InitFn
    /\ files = <<>>
    /\ fn_in \in ClassifierForms

\* is_important_form(fn_in)
Classify ==
    /\ fn_out = <<>>
    /\ fn_out' = <<is_important_form(fn_in)>>
    /\ UNCHANGED <<instance_vars, disk_vars, site_vars, pc, frame_vars, caller_vars,
                   call_vars, fn_in>>

SpecClassify == InitClassify /\ [][Classify]_vars

(***************************************************************************)
(* download_pdf applied on its own, MaxInvocations times, to one record    *)
(* and one download_dir.                                                   *)
(***************************************************************************)
DownloadForms ==
    {extract_form_info(r, 0)[1] : r \in {row_1040, row_notice, row_spanish, row_w2}}

InitDownload ==
    /\ InitFn
    /\ files \in InitialDirs
    /\ fn_in \in DownloadForms

\* download_pdf(page, fn_in, index); fn_out keeps, per invocation, what the network
\* did, the GETs it issued and the directory and counter it found
DownloadInvoke ==
    /\ Len(fn_out) < MaxInvocations
    /\ \E net \in NetOutcomes :
          LET r == download_pdf(files, downloaded_count, fn_in, net)
          IN  /\ files' = r.files
              /\ downloaded_count' = r.downloaded_count
              /\ gets' = gets + r.gets
              /\ fn_out' = Append(fn_out,
                                  [net |-> IF r.gets = 0 THEN "skipped" ELSE net,
                                   gets |-> r.gets,
                                   files_before |-> files,
                                   count_before |-> downloaded_count])
    /\ UNCHANGED <<filter_important_only, total_forms_found, important_forms_found>>
    /\ UNCHANGED <<metadata_file, site_rows, avail, clock, pc, frame_vars, caller_vars,
                   call_vars, fn_in>>

SpecDownload == InitDownload /\ [][DownloadInvoke]_vars

(***************************************************************************)
(* What the claims speak of.                                               *)
(***************************************************************************)
\* the records a run keeps of rows rs, in order, their timestamps set to 0
RECURSIVE ExpectedForms(_)
ExpectedForms(rs) ==
    IF rs = <<>> THEN <<>>
    ELSE LET info == extract_form_info(Head(rs), 0)
         IN  (IF info # <<>> /\ Accepted(info[1]) THEN <<info[1]>> ELSE <<>>)
                 \o ExpectedForms(Tail(rs))

\* the number of rows of rs that yield a record
RECURSIVE RecordCount(_)
RecordCount(rs) ==
    IF rs = <<>> THEN 0
    ELSE (IF extract_form_info(Head(rs), 0) # <<>> THEN 1 ELSE 0) + RecordCount(Tail(rs))

Unstamped(forms) == [i \in 1..Len(forms) |-> [forms[i] EXCEPT !.scraped_date = 0]]

\* the rows of metadata.csv, none when there is no such file
MetadataRows == IF metadata_file.exists THEN metadata_file.rows ELSE <<>>

InSeq(x, q) == \E i \in 1..Len(q) : q[i] = x

Min(a, b) == IF a <= b THEN a ELSE b

\* the rows the current call has gone through
ProcessedRows ==
    IF pc = "row"
    THEN Concat(SubSeq(pages_seen, 1, Len(pages_seen) - 1)) \o SubSeq(rows, 1, idx - 1)
    ELSE Concat(pages_seen)

\* the records the current call holds
HeldForms ==
    IF pc = "row" THEN all_forms_data \o page_forms_data ELSE all_forms_data

(***************************************************************************)
(* C1.  With an integer page cap N >= 0 no page above N is processed, and  *)
(* a call that returns without an error has processed exactly pages        *)
(* 1..min(N, M) of a catalog of M pages and returns their accepted         *)
(* records.                                                                *)
(***************************************************************************)
C1_PageCap ==
    max_pages # NoCap =>
        /\ Len(pages_seen) <= max_pages
        /\ (pc = "returned" /\ ~fault) =>
              /\ Len(pages_seen) = Min(max_pages, avail)
              /\ Unstamped(result[1]) = ExpectedForms(Concat(pages_seen))

(***************************************************************************)
(* C2.  A record whose title contains one of the rule-1 words "version)",  *)
(* "Version", "Spanish", "Chinese", "Vietnamese" is rejected by            *)
(* is_important_form, whatever a later rule would say.                     *)
(***************************************************************************)
HasRuleOneWord(title) ==
    \E w \in {lit_version_paren, lit_Version, lit_Spanish, lit_Chinese, lit_Vietnamese} :
        Contains(title, w)

C2_RuleOneFirst ==
    (fn_out # <<>> /\ HasRuleOneWord(fn_in.title)) => fn_out[1] = FALSE

(***************************************************************************)
(* C3.  When scrape_all_pages has returned, metadata.csv has one row per   *)
(* record accepted in this run, whatever the directory held before; with   *)
(* filtering disabled that is the number of records extracted.             *)
(***************************************************************************)
C3_MetadataRowCount ==
    pc = "returned" =>
        /\ Len(MetadataRows) = Len(ExpectedForms(Concat(pages_seen)))
        /\ ~filter_important_only => Len(MetadataRows) = RecordCount(Concat(pages_seen))

FilesAfter(i) == IF i < Len(fn_out) THEN fn_out[i + 1].files_before ELSE files
CountAfter(i) == IF i < Len(fn_out) THEN fn_out[i + 1].count_before ELSE downloaded_count

C5_DownloadFailure ==
    /\ [][(pc = "row" /\ idx' = idx + 1 /\ dl' # <<>> /\ dl'[1].net \in GetFailures) =>
             /\ files' = files
             /\ downloaded_count' = downloaded_count
             /\ gets' = gets + 1
             /\ pc' = "row"
             /\ raising' = FALSE
             /\ page_forms_data' = Append(page_forms_data, dl'[1].form)]_vars
    /\ [](pc = "returned" =>
             \A f \in failed_forms :
                 /\ InSeq(f, result[1])
                 /\ metadata_file.exists
                 /\ InSeq(f, metadata_file.rows)
                 /\ f.pdf_url # <<>>
                 /\ f.filename # <<>>)

\* a call has returned a record whose GET failed, and its file is not there
C5_Witness ==
    /\ pc = "returned"
    /\ \E f \in failed_forms :
          /\ InSeq(f, result[1])
          /\ f.filename \notin DOMAIN files
    /\ downloaded_count = 0

(***************************************************************************)
(* C6.  When the navigation to page k or the wait for its table has        *)
(* failed and scrape_all_pages has returned, the returned list and         *)
(* metadata.csv hold exactly the accepted records of pages 1..k-1, in      *)
(* order.                                                                  *)
(***************************************************************************)
C6_PageFailSoft ==
    (pc = "returned" /\ nav_failed > 0) =>
        /\ Len(pages_seen) = nav_failed - 1
        /\ Unstamped(result[1]) = ExpectedForms(Concat(pages_seen))
        /\ MetadataRows = result[1]

(***************************************************************************)
(* C7.  Whatever fails, main reaches print_summary: main is never left     *)
(* without it.                                                             *)
(***************************************************************************)
C7_SummaryReached ==
    (pc = "done" \/ pc = "crashed") => summary_printed

HasNoRecord(row) == row.ncells < 4 \/ (row.span_link = <<>> /\ row.outer_link = <<>>)

\* the rows of rs that have 4 cells or more and a link in the first
RECURSIVE WellFormedCount(_)
WellFormedCount(rs) ==
    IF rs = <<>> THEN 0
    ELSE (IF HasNoRecord(Head(rs)) THEN 0 ELSE 1) + WellFormedCount(Tail(rs))

NoRecordRowsDropped ==
    /\ total_forms_found <= WellFormedCount(ProcessedRows)
    /\ Len(HeldForms) <= WellFormedCount(ProcessedRows)

C9_FilenameIffUrl ==
    /\ \A i \in 1..Len(HeldForms) :
          (HeldForms[i].filename = <<>>) <=> (HeldForms[i].pdf_url = <<>>)
    /\ NoRecordRowsDropped

(***************************************************************************)
(* C9 as amended.  The filename of every record kept is what follows the   *)
(* last '/' of its pdf_url, so it is empty if and only if pdf_url is empty *)
(* or ends with '/'; a row with fewer than 4 cells or no link in its first *)
(* cell yields no record, is not kept and is not counted.                  *)
(***************************************************************************)
IsLastSegment(name, url) ==
    /\ \A i \in 1..Len(name) : name[i] # "/"
    /\ EndsWith(url, name)
    /\ Len(name) < Len(url) => url[Len(url) - Len(name)] = "/"

C9_FilenameLastSegment ==
    /\ \A i \in 1..Len(HeldForms) :
          LET f == HeldForms[i]
          IN  /\ IsLastSegment(f.filename, f.pdf_url)
              /\ (f.filename = <<>>) <=> (f.pdf_url = <<>> \/ EndsWith(f.pdf_url, <<"/">>))
    /\ NoRecordRowsDropped

\* a record is kept whose pdf_url ends with '/', and so has no filename
C9_Witness ==
    /\ pc = "returned"
    /\ \E i \in 1..Len(result[1]) :
          /\ result[1][i].pdf_url # <<>>
          /\ result[1][i].filename = <<>>
    /\ total_forms_found = Len(ProcessedRows)

(***************************************************************************)
(* C10.  Always downloaded_count <= important_forms_found <=               *)
(* total_forms_found, and when a call of scrape_all_pages has returned,    *)
(* the first or a later one, important_forms_found is the length of the    *)
(* list it returned.                                                       *)
(***************************************************************************)
CountersOrdered ==
    /\ downloaded_count <= important_forms_found
    /\ important_forms_found <= total_forms_found

C10_ImportantIsReturned ==
    /\ CountersOrdered
    /\ pc = "returned" => important_forms_found = Len(result[1])

(***************************************************************************)
(* C10 as amended.  Always downloaded_count <= important_forms_found <=    *)
(* total_forms_found, and when a call of scrape_all_pages has returned,    *)
(* important_forms_found has grown during that call by the length of the   *)
(* list it returned: it is that length after the first call only.          *)
(***************************************************************************)
C10_ImportantGrowsByReturned ==
    /\ CountersOrdered
    /\ pc = "returned" =>
          /\ important_forms_found = important_at_call + Len(result[1])
          /\ calls = 1 => important_forms_found = Len(result[1])

\* a second call has returned records, after a first that had kept some
C10_Witness ==
    /\ pc = "returned"
    /\ calls = 2
    /\ important_at_call > 0
    /\ Len(result[1]) > 0
    /\ downloaded_count < important_forms_found
    /\ important_forms_found < total_forms_found

=============================================================================
